---- MODULE Spec2Model ----
(***************************************************************************)
(* Related-content discovery of the Confluence/Jira client and of the MCP  *)
(* tools that expose it: keyword extraction, CQL/JQL synthesis, the two     *)
(* outbound requests of one invocation, and the error paths of the client  *)
(* library and of the tool layer.                                          *)
(*                                                                         *)
(* Text is a sequence of one-character strings.  A query expression is a   *)
(* sequence of lexemes (atoms `field op "value"`, AND, OR, parentheses,     *)
(* ORDER BY), in the order the template literals concatenate them.         *)
(***************************************************************************)
EXTENDS Integers, Sequences, FiniteSets, TLC

VARIABLES db, env, clients, inv, text, kws, kwDone, sprint, doc

vars == <<db, env, clients, inv, text, kws, kwDone, sprint, doc>>

(***************************************************************************)
(* Bounds                                                                  *)
(***************************************************************************)
MaxTitleLen == 5
MaxLimit == 2

(***************************************************************************)
(* Characters                                                              *)
(***************************************************************************)
WordChars == {"a", "b", "A", "_"}
Alphabet == {"a", "_", "-", " "}

\* \s of the regular expressions
IsSpace(c) == c = " "

\* \w of the regular expressions
IsWord(c) == c \in WordChars

RECURSIVE StringsOfLen(_)
StringsOfLen(n) ==
  IF n = 0 THEN {<<>>}
  ELSE {Append(s, c) : s \in StringsOfLen(n - 1), c \in Alphabet}

Strings == UNION {StringsOfLen(n) : n \in 0..MaxTitleLen}

\* longer texts: a repeated word, upper case, runs of blanks, double quotes
SampleTexts ==
  { <<"a", "a", "a", "a", " ", "a", "a", "a", "a">>,
    <<"\"", "a", "b", "\"", "a", "b", "\"", " ", "\"", "a", "\"">>,
    <<"A", "a", "-", "a", " ", " ", "A", "a", "-", "a">>,
    <<" ", "a", "b", "_", "A", "b", " ", "a", "b", " ">>,
    <<" ", " ", " ", " ", " ", " ">> }

(***************************************************************************)
(* Keyword extraction: title.split(/\s+/).filter(length > 3)               *)
(*                          .map(replace(/[^\w\s]/g, ''))                  *)
(***************************************************************************)
RECURSIVE SplitFrom(_, _, _)
SplitFrom(s, i, cur) ==
  IF i > Len(s) THEN <<cur>>
  ELSE IF IsSpace(s[i])
       THEN IF i > 1 /\ IsSpace(s[i - 1])
            THEN SplitFrom(s, i + 1, cur)
            ELSE <<cur>> \o SplitFrom(s, i + 1, <<>>)
       ELSE SplitFrom(s, i + 1, Append(cur, s[i]))

\* String.prototype.split(/\s+/): a leading or trailing whitespace run
\* leaves an empty first or last token, and "" splits to [""].
Split(s) == SplitFrom(s, 1, <<>>)

LongEnough(word) == Len(word) > 3

\* variant: double quotes are kept too
KeepWordOrSpace_KeepsQuote(c) == IsWord(c) \/ IsSpace(c) \/ c = "\""

KeepWordOrSpace(c) == IsWord(c) \/ IsSpace(c)

\* word.replace(/[^\w\s]/g, '')
StripPunct(word) == SelectSeq(word, KeepWordOrSpace)

Range(s) == {s[n] : n \in 1..Len(s)}

\* variant: short tokens are not filtered out
extractKeywords_NoLengthFilter(title) ==
  LET words == Split(title)
  IN  [n \in 1..Len(words) |-> StripPunct(words[n])]

\* variant: the length filter is applied to the cleaned tokens
extractKeywords_FilterAfterStrip(title) ==
  LET words == Split(title)
  IN  SelectSeq([n \in 1..Len(words) |-> StripPunct(words[n])], LongEnough)

extractKeywords(title) ==
  LET words == SelectSeq(Split(title), LongEnough)
  IN  [n \in 1..Len(words) |-> StripPunct(words[n])]

(***************************************************************************)
(* Query lexemes                                                           *)
(***************************************************************************)
Atom(f, op, v) == [k |-> "atom", f |-> f, op |-> op, v |-> v]
Lex(s) == [k |-> s, f |-> "", op |-> "", v |-> <<>>]
AND == Lex("AND")
OR == Lex("OR")
LP == Lex("(")
RP == Lex(")")
ORDERBY == Lex("ORDER BY updated DESC")

\* Array.prototype.join(' OR ') over parts that are lexeme sequences
RECURSIVE JoinOr(_)
JoinOr(parts) ==
  IF Len(parts) = 0 THEN <<>>
  ELSE IF Len(parts) = 1 THEN parts[1]
  ELSE parts[1] \o <<OR>> \o JoinOr(Tail(parts))

\* variant: only the first keyword gets a title term
TitleTerms_FirstOnly(keywords) ==
  [n \in 1..(IF Len(keywords) > 0 THEN 1 ELSE 0) |->
     <<Atom("title", "~", keywords[n])>>]

\* keywords.map(word => `title ~ "${word}"`)
TitleTerms(keywords) ==
  [n \in 1..Len(keywords) |-> <<Atom("title", "~", keywords[n])>>]

\* labelNames.map(name => `labelText = "${name}"`)
LabelTextTerms(labelNames) ==
  [n \in 1..Len(labelNames) |-> <<Atom("labelText", "=", labelNames[n])>>]

\* keywords.map(word => `summary ~ "${word}"`)
SummaryTerms(keywords) ==
  [n \in 1..Len(keywords) |-> <<Atom("summary", "~", keywords[n])>>]

\* labels.map(label => `labels = "${label}"`)
LabelsTerms(labels) ==
  [n \in 1..Len(labels) |-> <<Atom("labels", "=", labels[n])>>]

BaseClause(pageId) ==
  <<Atom("type", "=", <<"page">>), AND, Atom("id", "!=", <<pageId>>)>>

\* variant: the label disjunction is always joined with OR
BuildCql_AlwaysOr(pageId, keywords, labels) ==
  LET base == BaseClause(pageId)
      withTitle ==
        IF Len(keywords) > 0
        THEN base \o <<AND, LP>> \o JoinOr(TitleTerms(keywords)) \o <<RP>>
        ELSE base
  IN  IF Len(labels) > 0
      THEN withTitle \o <<OR, LP>>
             \o JoinOr(LabelTextTerms(labels)) \o <<RP>>
      ELSE withTitle

\* relatedQuery of getTopicallyRelatedPages
BuildCql(pageId, keywords, labels) ==
  LET base == BaseClause(pageId)
      withTitle ==
        IF Len(keywords) > 0
        THEN base \o <<AND, LP>> \o JoinOr(TitleTerms(keywords)) \o <<RP>>
        ELSE base
  IN  IF Len(labels) > 0
      THEN withTitle
             \o <<IF Len(keywords) > 0 THEN OR ELSE AND, LP>>
             \o JoinOr(LabelTextTerms(labels)) \o <<RP>>
      ELSE withTitle

\* variant: the project clause is left out when another clause exists
RelatedQueries_NoProject(project, summary, labels) ==
  LET keywords == extractKeywords(summary)
      rest ==
        (IF Len(summary) > 0 /\ Len(keywords) > 0
         THEN << <<LP>> \o JoinOr(SummaryTerms(keywords)) \o <<RP>> >>
         ELSE <<>>)
        \o (IF Len(labels) > 0
            THEN << <<LP>> \o JoinOr(LabelsTerms(labels)) \o <<RP>> >>
            ELSE <<>>)
  IN  IF Len(rest) > 0 THEN rest
      ELSE << <<Atom("project", "=", <<project>>)>> >>

\* relatedQueries of getRelatedIssues
RelatedQueries(project, summary, labels) ==
  LET keywords == extractKeywords(summary)
  IN  << <<Atom("project", "=", <<project>>)>> >>
        \o (IF Len(summary) > 0 /\ Len(keywords) > 0
            THEN << <<LP>> \o JoinOr(SummaryTerms(keywords)) \o <<RP>> >>
            ELSE <<>>)
        \o (IF Len(labels) > 0
            THEN << <<LP>> \o JoinOr(LabelsTerms(labels)) \o <<RP>> >>
            ELSE <<>>)

\* variant: the original issue is not excluded
BuildJql_NoExclusion(issueKey, project, summary, labels) ==
  <<LP>> \o JoinOr(RelatedQueries(project, summary, labels)) \o <<RP, ORDERBY>>

\* jql of getRelatedIssues
BuildJql(issueKey, project, summary, labels) ==
  <<LP>> \o JoinOr(RelatedQueries(project, summary, labels))
    \o <<RP, AND, Atom("issuekey", "!=", <<issueKey>>), ORDERBY>>

(***************************************************************************)
(* The remote services.  An item is a page or blog post (Confluence) or an *)
(* issue (Jira): its title or summary, its labels, its project.  The       *)
(* search endpoints evaluate an expression with AND binding tighter than   *)
(* OR and return the matching items, at most `limit` of them.              *)
(***************************************************************************)
IdOrder == <<"1", "2", "3">>
Ids == {IdOrder[n] : n \in 1..Len(IdOrder)}
MissingId == "9"

LX == <<"x">>
LY == <<"y">>
T0 == <<>>
T1 == <<"a", "a", "a", "a">>
T2 == <<"a", "a", "a", "a", " ", "b", "-", "b", "b">>

SourceShapes ==
  [type : {"page", "blogpost"}, title : {T0, T1, T2},
   labels : {<<>>, <<LX>>, <<LX, LY>>}, project : {"P"}]

OtherShapes ==
  { [type |-> "page", title |-> T1, labels |-> <<LX>>, project |-> "P"],
    [type |-> "blogpost", title |-> T0, labels |-> <<LX>>, project |-> "Q"],
    [type |-> "page", title |-> T0, labels |-> <<>>, project |-> "P"] }

DbSpace ==
  {d \in [Ids -> SourceShapes \cup OtherShapes] :
     \A id \in Ids \ {"1"} : d[id] \in OtherShapes}

\* the words a text search matches against
WordsOf(title) == {StripPunct(w) : w \in Range(Split(title))} \ {<<>>}

EvalAtom(a, id, item) ==
  CASE a.f = "type" -> <<item.type>> = a.v
    [] a.f = "id" -> <<id>> # a.v
    [] a.f = "issuekey" -> <<id>> # a.v
    [] a.f = "title" -> a.v \in WordsOf(item.title)
    [] a.f = "summary" -> a.v \in WordsOf(item.title)
    [] a.f = "labelText" -> a.v \in Range(item.labels)
    [] a.f = "labels" -> a.v \in Range(item.labels)
    [] a.f = "project" -> <<item.project>> = a.v
    [] OTHER -> FALSE

\* nesting depth of position n: open parentheses before it
RECURSIVE DepthAt(_, _)
DepthAt(toks, n) ==
  IF n <= 1 THEN 0
  ELSE DepthAt(toks, n - 1)
         + (IF toks[n - 1] = LP THEN 1 ELSE 0)
         - (IF toks[n] = RP THEN 1 ELSE 0)

\* first position of connective c outside any parentheses, or 0
FindTop(toks, c) ==
  LET hits == {n \in 1..Len(toks) : toks[n] = c /\ DepthAt(toks, n) = 0}
  IN  IF hits = {} THEN 0 ELSE CHOOSE n \in hits : \A m \in hits : n <= m

RECURSIVE EvalOr(_, _, _)
RECURSIVE EvalAnd(_, _, _)
RECURSIVE EvalPrim(_, _, _)
EvalOr(toks, id, item) ==
  LET n == FindTop(toks, OR)
  IN  IF n = 0 THEN EvalAnd(toks, id, item)
      ELSE EvalAnd(SubSeq(toks, 1, n - 1), id, item)
             \/ EvalOr(SubSeq(toks, n + 1, Len(toks)), id, item)

EvalAnd(toks, id, item) ==
  LET n == FindTop(toks, AND)
  IN  IF n = 0 THEN EvalPrim(toks, id, item)
      ELSE EvalPrim(SubSeq(toks, 1, n - 1), id, item)
             /\ EvalAnd(SubSeq(toks, n + 1, Len(toks)), id, item)

EvalPrim(toks, id, item) ==
  IF Len(toks) = 1 THEN toks[1].k = "atom" /\ EvalAtom(toks[1], id, item)
  ELSE IF Len(toks) >= 3 /\ toks[1] = LP /\ toks[Len(toks)] = RP
       THEN EvalOr(SubSeq(toks, 2, Len(toks) - 1), id, item)
       ELSE FALSE

WithoutOrder(toks) ==
  IF Len(toks) > 0 /\ toks[Len(toks)] = ORDERBY
  THEN SubSeq(toks, 1, Len(toks) - 1)
  ELSE toks

Matches(d, q, id) == EvalOr(WithoutOrder(q), id, d[id])

Take(s, n) == SubSeq(s, 1, IF n < Len(s) THEN n ELSE Len(s))

\* the page of results of GET /content/search and GET /search
Search(d, q, limit) ==
  LET MatchesId(id) == Matches(d, q, id)
  IN  Take(SelectSeq(IdOrder, MatchesId), limit)

\* the response body of the search: the items and the pagination fields
SearchPage(variant, d, q, limit) ==
  LET items == Search(d, q, limit)
      all == Search(d, q, Len(IdOrder))
  IN  [items |-> items,
       meta |->
         IF variant = "page"
         THEN {<<"start", "0">>, <<"limit", ToString(limit)>>,
               <<"size", ToString(Len(items))>>}
         ELSE {<<"startAt", "0">>, <<"maxResults", ToString(limit)>>,
               <<"total", ToString(Len(all))>>}]

(***************************************************************************)
(* Errors                                                                  *)
(***************************************************************************)
FailStatuses == {401, 403, 404, 500}

StatusText(status) ==
  CASE status = 401 -> "Unauthorized"
    [] status = 403 -> "Forbidden"
    [] status = 404 -> "Not Found"
    [] OTHER -> "Internal Server Error"

NoError ==
  [name |-> "none", hasResponse |-> FALSE, status |-> 0, statusText |-> "",
   message |-> <<>>]

\* a rejected axios request that carries a response
HttpError(status) ==
  [name |-> "AxiosError", hasResponse |-> TRUE, status |-> status,
   statusText |-> StatusText(status),
   message |-> <<"Request failed with status code", ToString(status)>>]

\* a rejected axios request without a response
TransportError ==
  [name |-> "AxiosError", hasResponse |-> FALSE, status |-> 0,
   statusText |-> "", message |-> <<"connect ECONNREFUSED">>]

Failures == {HttpError(st) : st \in FailStatuses} \cup {TransportError}

UserError(message) ==
  [name |-> "UserError", hasResponse |-> FALSE, status |-> 0,
   statusText |-> "", message |-> message]

\* what ConfluenceClient.handleError writes to console.error before it
\* rethrows the error it was given
ConfluenceLog(error) ==
  IF error.hasResponse
  THEN <<"Error: status - statusText">>
         \o (IF error.status = 401 THEN <<"Authentication failed">>
             ELSE IF error.status = 404 THEN <<"Resource not found">>
             ELSE <<>>)
  ELSE <<"An unexpected error occurred">>

\* what JiraClient.handleError writes to console.error before it rethrows
JiraLog(error) ==
  IF error.hasResponse
  THEN <<"Error: status - statusText">>
         \o (IF error.status = 401 THEN <<"Authentication failed">>
             ELSE IF error.status = 403 THEN <<"Permission denied">>
             ELSE IF error.status = 404 THEN <<"Resource not found">>
             ELSE <<>>)
  ELSE <<"An unexpected error occurred">>

ClientLog(variant, error) ==
  IF variant = "page" THEN ConfluenceLog(error) ELSE JiraLog(error)

AuthMessage == <<"Authentication Error:", "Failed to authenticate with Confluence.",
                 "Please check your credentials.">>
PermissionMessage == <<"Permission Error:",
                       "You do not have permission to access this resource in Confluence.">>
NotFoundMessage == <<"Not Found Error:",
                     "The requested Confluence resource could not be found.",
                     "Please check the provided ID or parameters.">>
EnvMessage == <<"Please set ATLASSIAN_DOMAIN, ATLASSIAN_USER, and ATLASSIAN_TOKEN",
                "in the .env file">>

\* the credential values of process.env; TRUE is a non-empty value
EnvNames == {"ATLASSIAN_DOMAIN", "ATLASSIAN_USER", "ATLASSIAN_TOKEN"}
EnvSpace == [EnvNames -> BOOLEAN]
FullEnv == [n \in EnvNames |-> TRUE]
MissingOne == {[FullEnv EXCEPT ![n] = FALSE] : n \in EnvNames}

\* variant: the token is not looked at
EnvOk_IgnoresToken == env["ATLASSIAN_DOMAIN"] /\ env["ATLASSIAN_USER"]

\* the negation of !ATLASSIAN_DOMAIN || !ATLASSIAN_USER || !ATLASSIAN_TOKEN
EnvOk ==
  env["ATLASSIAN_DOMAIN"] /\ env["ATLASSIAN_USER"] /\ env["ATLASSIAN_TOKEN"]

\* variant: an error that is already a UserError is wrapped again
handleError_Rewraps(error) ==
  IF error.hasResponse
  THEN IF error.status = 401 THEN UserError(AuthMessage)
       ELSE IF error.status = 403 THEN UserError(PermissionMessage)
       ELSE IF error.status = 404 THEN UserError(NotFoundMessage)
       ELSE UserError(<<"Confluence API Error:", ToString(error.status),
                        error.statusText>>)
  ELSE UserError(<<"An unexpected error occurred:">> \o error.message)

\* variant: 403 is not told apart from the other statuses
handleError_No403(error) ==
  IF error.hasResponse
  THEN IF error.status = 401 THEN UserError(AuthMessage)
       ELSE IF error.status = 404 THEN UserError(NotFoundMessage)
       ELSE UserError(<<"Confluence API Error:", ToString(error.status),
                        error.statusText>>)
  ELSE IF error.name = "UserError" THEN error
  ELSE UserError(<<"An unexpected error occurred:">> \o error.message)

\* handleError of the tool layer: the error it throws
handleError(error) ==
  IF error.hasResponse
  THEN IF error.status = 401 THEN UserError(AuthMessage)
       ELSE IF error.status = 403 THEN UserError(PermissionMessage)
       ELSE IF error.status = 404 THEN UserError(NotFoundMessage)
       ELSE UserError(<<"Confluence API Error:", ToString(error.status),
                        error.statusText>>)
  ELSE IF error.name = "UserError" THEN error
  ELSE UserError(<<"An unexpected error occurred:">> \o error.message)

(***************************************************************************)
(* extractIssueDetails: an issue rendered as lines of text.  A line is a   *)
(* sequence of lexemes; an optional value is <<>> (absent) or <<value>>.   *)
(***************************************************************************)
MaxNodes == 2

\* a JavaScript-truthy optional string
Truthy(opt) == opt # <<>> /\ opt[1] # ""

\* value || fallback
OrElse(opt, fallback) == IF Truthy(opt) THEN opt[1] ELSE fallback

TextNode(t, mark) == [type |-> "text", text |-> t, mark |-> mark, content |-> <<>>]
HardBreak == [type |-> "hardBreak", text |-> "", mark |-> "", content |-> <<>>]
Nested(children) ==
  [type |-> "inline", text |-> "", mark |-> "", content |-> children]

\* the content arrays of the nodes of a description
ChildLists ==
  { <<>>,
    <<TextNode("alpha", "")>>,
    <<TextNode("alpha", ""), TextNode("beta", "strong")>>,
    <<HardBreak, TextNode("", "")>>,
    <<Nested(<<TextNode("gamma", "em")>>), TextNode("beta", "")>> }

AdfNodes == [type : {"paragraph", "heading"}, content : ChildLists]

AdfDocs == UNION {[1..n -> AdfNodes] : n \in 0..MaxNodes}

NullIssue ==
  [present |-> FALSE, hasFields |-> FALSE, key |-> "", summary |-> <<>>,
   status |-> <<>>, issuetype |-> <<>>, assignee |-> <<>>, reporter |-> <<>>,
   description |-> <<>>, customfield |-> <<>>, extractedDetails |-> <<>>]

IssueInputs ==
  {NullIssue, [NullIssue EXCEPT !.present = TRUE, !.key = "TEST-123"]}
    \cup [present : {TRUE}, hasFields : {TRUE}, key : {"TEST-123"},
          summary : {<<>>, <<"">>, <<"Test Issue">>},
          status : {<<>>, <<"Open">>}, issuetype : {<<>>, <<"Story">>},
          assignee : {<<"Test User">>}, reporter : {<<>>},
          description : {<<>>} \cup {<<d>> : d \in AdfDocs},
          customfield : {<<>>, <<"v">>},
          extractedDetails : {<<>>, <<"details">>}]

\* the marks of a text node applied to its text
Marked(t, mark) ==
  IF mark = "strong" THEN <<"**", t, "**">>
  ELSE IF mark = "em" THEN <<"*", t, "*">>
  ELSE <<t>>

\* parts.filter(Boolean).join(sep), the parts being lexeme sequences
RECURSIVE JoinNonEmpty(_, _)
JoinNonEmpty(parts, sep) ==
  IF Len(parts) = 0 THEN <<>>
  ELSE LET rest == JoinNonEmpty(Tail(parts), sep)
       IN  IF parts[1] = <<>> THEN rest
           ELSE IF rest = <<>> THEN parts[1]
           ELSE parts[1] \o <<sep>> \o rest

RECURSIVE extractTextFromNode(_)
extractTextFromNode(node) ==
  LET ChildText(c) ==
        IF c.type = "text" /\ c.text # "" THEN Marked(c.text, c.mark)
        ELSE IF c.content # <<>> THEN extractTextFromNode(c)
        ELSE <<>>
  IN  JoinNonEmpty([n \in 1..Len(node.content) |-> ChildText(node.content[n])], " ")

\* the text block of a top-level node, <<>> when it yields no text
BlockOf(node) ==
  LET t == extractTextFromNode(node)
  IN  IF t = <<>> THEN <<>>
      ELSE IF node.type = "heading" THEN <<"# ">> \o t
      ELSE t

\* blocks.join('\n\n') as lines: an empty line between two blocks, and one
\* empty line when there is no block
RECURSIVE BlockLines(_)
BlockLines(blocks) ==
  IF Len(blocks) = 0 THEN << <<>> >>
  ELSE IF Len(blocks) = 1 THEN <<blocks[1]>>
  ELSE <<blocks[1], <<>>>> \o BlockLines(Tail(blocks))

NonEmpty(s) == s # <<>>

\* variant: only the first block of the document is rendered
extractADFContent_FirstBlockOnly(adf) ==
  LET blocks == SelectSeq([n \in 1..Len(adf) |-> BlockOf(adf[n])], NonEmpty)
  IN  BlockLines(IF Len(blocks) > 1 THEN <<blocks[1]>> ELSE blocks)

extractADFContent(adf) ==
  BlockLines(SelectSeq([n \in 1..Len(adf) |-> BlockOf(adf[n])], NonEmpty))

extractIssueDetails(issue) ==
  IF ~issue.present \/ ~issue.hasFields
  THEN << <<"No issue data available">> >>
  ELSE << <<"Issue Key:", issue.key>>,
          <<"Summary:", OrElse(issue.summary, "No summary")>>,
          <<"Status:", OrElse(issue.status, "Unknown")>>,
          <<"Type:", OrElse(issue.issuetype, "Unknown")>>,
          <<"Assignee:", OrElse(issue.assignee, "Unassigned")>>,
          <<"Reporter:", OrElse(issue.reporter, "Unknown")>> >>
       \o (IF issue.description # <<>>
           THEN << <<>>, <<"Description:">> >>
                  \o extractADFContent(issue.description[1])
           ELSE <<>>)
       \o (IF issue.customfield # <<>>
           THEN << <<>>, <<"Custom Fields:">>,
                   <<"customfield_10001:", issue.customfield[1]>> >>
           ELSE <<>>)

\* what a tool hands back: a string or undefined
StringValue(s) == [kind |-> "string", text |-> s]
Undefined == [kind |-> "undefined", text |-> <<>>]

IdleDoc == [pc |-> "idle", issue |-> NullIssue, out |-> <<>>, tool |-> Undefined]

\* the getJiraIssue tool after a successful getIssue: the response's
\* extractedDetails property if it is a string, else JSON.stringify of it
GetJiraIssueTool ==
  /\ doc.pc = "idle"
  /\ doc.issue.present
  /\ doc' = [doc EXCEPT !.pc = "returned",
               !.tool = IF doc.issue.extractedDetails # <<>>
                        THEN StringValue(<<doc.issue.extractedDetails>>)
                        ELSE Undefined]
  /\ UNCHANGED <<db, env, clients, inv, text, kws, kwDone, sprint>>

ExtractDetails ==
  /\ doc.pc = "idle"
  /\ doc' = [doc EXCEPT !.pc = "done", !.out = extractIssueDetails(doc.issue)]
  /\ UNCHANGED <<db, env, clients, inv, text, kws, kwDone, sprint>>

(***************************************************************************)
(* getSprintIssues: one request to the agile API, whose issue list is      *)
(* filtered by issue type when a non-empty list of types is given.         *)
(***************************************************************************)
MaxIssues == 3

\* issuetype?.name of an issue; "undefined" when the issue has no issue type
TypeNames == {"Story", "Bug", "Task", "undefined"}

\* issueTypes: <<>> when the argument is omitted, else <<list>>
TypeArgs ==
  {<<>>, << <<>> >>, << <<"Story">> >>, << <<"Bug", "Story">> >>}

\* the issues of a response: the key of an issue tells its position
IssueLists ==
  UNION {{[p \in 1..n |-> [key |-> p, type |-> f[p]]] : f \in [1..n -> TypeNames]}
           : n \in 0..MaxIssues}

SprintResponses ==
  {[issues |-> l, startAt |-> 0, maxResults |-> 50, total |-> t] :
     l \in IssueLists, t \in {MaxIssues, MaxIssues + 4}}

NoResponse == [issues |-> <<>>, startAt |-> 0, maxResults |-> 0, total |-> 0]

IdleSprint ==
  [pc |-> "idle", issueTypes |-> <<>>, response |-> NoResponse,
   returned |-> NoResponse, thrown |-> NoError, log |-> <<>>,
   reqs |-> <<>>, values |-> <<>>, effective |-> <<>>, message |-> "",
   error |-> NoError]

\* variant: only the first of the requested types is matched
FilterByTypes_FirstOnly(issues, issueTypes) ==
  LET Wanted(issue) == issue.type = issueTypes[1]
  IN  SelectSeq(issues, Wanted)

\* issues.filter(issue => issueTypes.includes(issue.fields.issuetype?.name))
FilterByTypes(issues, issueTypes) ==
  LET Wanted(issue) == issue.type \in Range(issueTypes)
  IN  SelectSeq(issues, Wanted)

\* the request is answered: { ...response.data, issues }
\* variant: an empty issueTypes list filters too
SprintOk_FiltersEmptyList ==
  /\ sprint.pc = "wait"
  /\ LET arg == sprint.issueTypes
         issues ==
           IF arg # <<>>
           THEN FilterByTypes(sprint.response.issues, arg[1])
           ELSE sprint.response.issues
     IN  sprint' = [sprint EXCEPT !.pc = "done",
                      !.returned = [sprint.response EXCEPT !.issues = issues]]
  /\ UNCHANGED <<db, env, clients, inv, text, kws, kwDone, doc>>

\* variant: total is recomputed from the filtered list
SprintOk_RecomputesTotal ==
  /\ sprint.pc = "wait"
  /\ LET arg == sprint.issueTypes
         issues ==
           IF arg # <<>> /\ Len(arg[1]) > 0
           THEN FilterByTypes(sprint.response.issues, arg[1])
           ELSE sprint.response.issues
     IN  sprint' = [sprint EXCEPT !.pc = "done",
                      !.returned = [sprint.response EXCEPT
                                      !.issues = issues, !.total = Len(issues)]]
  /\ UNCHANGED <<db, env, clients, inv, text, kws, kwDone, doc>>

SprintOk ==
  /\ sprint.pc = "wait"
  /\ LET arg == sprint.issueTypes
         issues ==
           IF arg # <<>> /\ Len(arg[1]) > 0
           THEN FilterByTypes(sprint.response.issues, arg[1])
           ELSE sprint.response.issues
     IN  sprint' = [sprint EXCEPT !.pc = "done",
                      !.returned = [sprint.response EXCEPT !.issues = issues]]
  /\ UNCHANGED <<db, env, clients, inv, text, kws, kwDone, doc>>

\* the request fails: handled and rethrown by getSprintIssues
SprintFail(e) ==
  /\ sprint.pc = "wait"
  /\ sprint' = [sprint EXCEPT !.pc = "failed", !.thrown = e,
                               !.log = @ \o JiraLog(e)]
  /\ UNCHANGED <<db, env, clients, inv, text, kws, kwDone, doc>>

(***************************************************************************)
(* One invocation of the related-content operation, entered through the    *)
(* MCP tool (getRelatedPages, getRelatedIssues) or by calling the client   *)
(* method directly (getTopicallyRelatedPages, getRelatedIssues).           *)
(***************************************************************************)
Invocations == {1, 2}

\* the invocation of a caller that makes one call
Solo == {1}

DefaultLimit == 10
JiraMaxResults == 10

Req(ep, id, q, limit) == [ep |-> ep, id |-> id, q |-> q, limit |-> limit]

IdleInv ==
  [pc |-> "idle", entry |-> "tool", variant |-> "page", id |-> "",
   hasLimit |-> FALSE, argLimit |-> 0, limit |-> 0,
   title |-> <<>>, keywords |-> <<>>, labels |-> <<>>, query |-> <<>>,
   reqs |-> <<>>, result |-> <<>>, thrown |-> NoError, error |-> NoError,
   failedAt |-> "", log |-> <<>>, meta |-> {}]

ServiceOf(variant) == IF variant = "page" THEN "confluence" ELSE "jira"

\* args.limit || 10 of the getRelatedPages tool
ToolLimit(hasLimit, argLimit) ==
  IF hasLimit /\ argLimit # 0 THEN argLimit ELSE DefaultLimit

\* limit: number = 10 of getTopicallyRelatedPages
ParamLimit(hasLimit, argLimit) ==
  IF hasLimit THEN argLimit ELSE DefaultLimit

\* what the caller of the invocation receives for an error thrown by the client
Surface(entry, error) == IF entry = "tool" THEN handleError(error) ELSE error

\* the tool's execute up to its first await: the client is created on first
\* use, the client method is entered and sends the item fetch
\* variant: the tool constructs a client on every invocation
ToolStart_AlwaysConstructs(i, variant, id, hasLimit, argLimit) ==
  /\ inv[i].pc = "idle"
  /\ IF ~EnvOk
     THEN /\ inv' = [inv EXCEPT ![i] =
                 [@ EXCEPT !.pc = "failed", !.entry = "tool",
                           !.variant = variant, !.id = id,
                           !.hasLimit = hasLimit, !.argLimit = argLimit,
                           !.failedAt = "init",
                           !.thrown = UserError(EnvMessage),
                           !.error = handleError(UserError(EnvMessage))]]
          /\ UNCHANGED clients
     ELSE /\ clients' = [clients EXCEPT ![ServiceOf(variant)] = @ + 1]
          /\ inv' = [inv EXCEPT ![i] =
                 [@ EXCEPT !.pc = "fetch", !.entry = "tool",
                           !.variant = variant, !.id = id,
                           !.hasLimit = hasLimit, !.argLimit = argLimit,
                           !.limit = IF variant = "page"
                                     THEN ToolLimit(hasLimit, argLimit)
                                     ELSE JiraMaxResults,
                           !.reqs = <<Req("fetch", id, <<>>, 0)>>]]
  /\ UNCHANGED <<db, env, text, kws, kwDone, sprint, doc>>

ToolStart(i, variant, id, hasLimit, argLimit) ==
  /\ inv[i].pc = "idle"
  /\ IF clients[ServiceOf(variant)] = 0 /\ ~EnvOk
     THEN /\ inv' = [inv EXCEPT ![i] =
                 [@ EXCEPT !.pc = "failed", !.entry = "tool",
                           !.variant = variant, !.id = id,
                           !.hasLimit = hasLimit, !.argLimit = argLimit,
                           !.failedAt = "init",
                           !.thrown = UserError(EnvMessage),
                           !.error = handleError(UserError(EnvMessage))]]
          /\ UNCHANGED clients
     ELSE /\ clients' =
               IF clients[ServiceOf(variant)] = 0
               THEN [clients EXCEPT ![ServiceOf(variant)] = @ + 1]
               ELSE clients
          /\ inv' = [inv EXCEPT ![i] =
                 [@ EXCEPT !.pc = "fetch", !.entry = "tool",
                           !.variant = variant, !.id = id,
                           !.hasLimit = hasLimit, !.argLimit = argLimit,
                           !.limit = IF variant = "page"
                                     THEN ToolLimit(hasLimit, argLimit)
                                     ELSE JiraMaxResults,
                           !.reqs = <<Req("fetch", id, <<>>, 0)>>]]
  /\ UNCHANGED <<db, env, text, kws, kwDone, sprint, doc>>

\* variant: the search is sent together with the item fetch
ClientStart_SendsBoth(i, variant, id, hasLimit, argLimit) ==
  /\ inv[i].pc = "idle"
  /\ inv' = [inv EXCEPT ![i] =
         [@ EXCEPT !.pc = "fetch", !.entry = "client",
                   !.variant = variant, !.id = id,
                   !.hasLimit = hasLimit, !.argLimit = argLimit,
                   !.limit = IF variant = "page"
                             THEN ParamLimit(hasLimit, argLimit)
                             ELSE JiraMaxResults,
                   !.reqs = <<Req("fetch", id, <<>>, 0),
                              Req("search", "", BaseClause(id),
                                  ParamLimit(hasLimit, argLimit))>>]]
  /\ UNCHANGED <<db, env, clients, text, kws, kwDone, sprint, doc>>

\* a direct call of the client method up to its first await
ClientStart(i, variant, id, hasLimit, argLimit) ==
  /\ inv[i].pc = "idle"
  /\ inv' = [inv EXCEPT ![i] =
         [@ EXCEPT !.pc = "fetch", !.entry = "client",
                   !.variant = variant, !.id = id,
                   !.hasLimit = hasLimit, !.argLimit = argLimit,
                   !.limit = IF variant = "page"
                             THEN ParamLimit(hasLimit, argLimit)
                             ELSE JiraMaxResults,
                   !.reqs = <<Req("fetch", id, <<>>, 0)>>]]
  /\ UNCHANGED <<db, env, clients, text, kws, kwDone, sprint, doc>>

\* keywords as the two variants compute them from the fetched item
KeywordsOf(variant, title) ==
  IF variant = "issue" /\ Len(title) = 0 THEN <<>> ELSE extractKeywords(title)

QueryOf(variant, id, item) ==
  IF variant = "page"
  THEN BuildCql(id, extractKeywords(item.title), item.labels)
  ELSE BuildJql(id, item.project, item.title, item.labels)

\* variant: the expression is kept in a buffer shared by the invocations
\* variant: the continuation after the fetch is never resumed
FetchOk_NeverResumes(i) ==
  /\ inv[i].pc = "fetch"
  /\ inv[i].id \in Ids
  /\ inv' = [inv EXCEPT ![i] = [@ EXCEPT !.pc = "pending"]]
  /\ UNCHANGED <<db, env, clients, text, kws, kwDone, sprint, doc>>

FetchOk_SharedQuery(i) ==
  /\ inv[i].pc = "fetch"
  /\ inv[i].id \in Ids
  /\ LET item == db[inv[i].id]
         others == {j \in Invocations \ {i} : inv[j].query # <<>>}
         q == IF others # {}
              THEN inv[CHOOSE j \in others : TRUE].query
              ELSE QueryOf(inv[i].variant, inv[i].id, item)
     IN  inv' = [inv EXCEPT ![i] =
           [@ EXCEPT !.pc = "search", !.title = item.title,
                     !.keywords = KeywordsOf(inv[i].variant, item.title),
                     !.labels = item.labels, !.query = q,
                     !.reqs = Append(@, Req("search", "", q, inv[i].limit))]]
  /\ UNCHANGED <<db, env, clients, text, kws, kwDone, sprint, doc>>

\* the item fetch answers: the query is synthesized and the search is sent
FetchOk(i) ==
  /\ inv[i].pc = "fetch"
  /\ inv[i].id \in Ids
  /\ LET item == db[inv[i].id]
         q == QueryOf(inv[i].variant, inv[i].id, item)
     IN  inv' = [inv EXCEPT ![i] =
           [@ EXCEPT !.pc = "search", !.title = item.title,
                     !.keywords = KeywordsOf(inv[i].variant, item.title),
                     !.labels = item.labels, !.query = q,
                     !.reqs = Append(@, Req("search", "", q, inv[i].limit))]]
  /\ UNCHANGED <<db, env, clients, text, kws, kwDone, sprint, doc>>

\* variant: the failure of the fetch is reported after the search was sent
FetchFail_StillSearches(i, e) ==
  /\ inv[i].pc = "fetch"
  /\ inv' = [inv EXCEPT ![i] =
         [@ EXCEPT !.pc = "failed", !.failedAt = "fetch", !.thrown = e,
                   !.error = Surface(inv[i].entry, e),
                   !.reqs = Append(@, Req("search", "", BaseClause(inv[i].id),
                                          inv[i].limit)),
                   !.log = @ \o ClientLog(inv[i].variant, e)]]
  /\ UNCHANGED <<db, env, clients, text, kws, kwDone, sprint, doc>>

\* the item fetch fails: getPageById / getIssue handles and rethrows, the
\* composite method's own catch handles and rethrows again
FetchFail(i, e) ==
  /\ inv[i].pc = "fetch"
  /\ inv' = [inv EXCEPT ![i] =
         [@ EXCEPT !.pc = "failed", !.failedAt = "fetch", !.thrown = e,
                   !.error = Surface(inv[i].entry, e),
                   !.log = @ \o ClientLog(inv[i].variant, e)
                             \o ClientLog(inv[i].variant, e)]]
  /\ UNCHANGED <<db, env, clients, text, kws, kwDone, sprint, doc>>

\* the fields of the returned value besides the items
ReturnedMeta(r, page) ==
  IF r.variant = "issue" THEN {}
  ELSE IF r.entry = "tool"
  THEN {<<"totalCount", ToString(Len(page.items))>>, <<"relatedToPageId", r.id>>}
  ELSE page.meta

\* variant: the source item is filtered out of the page locally
SearchOk_DropsSource(i) ==
  /\ inv[i].pc = "search"
  /\ LET page == SearchPage(inv[i].variant, db, inv[i].query, inv[i].limit)
         NotSource(id) == id # inv[i].id
     IN  inv' = [inv EXCEPT ![i] =
           [@ EXCEPT !.pc = "done",
                     !.result = SelectSeq(page.items, NotSource),
                     !.meta = ReturnedMeta(inv[i], page)]]
  /\ UNCHANGED <<db, env, clients, text, kws, kwDone, sprint, doc>>

\* the search answers: response.data (Confluence) or searchResult.issues
\* (Jira) is returned; the tool reshapes the page into its JSON answer
SearchOk(i) ==
  /\ inv[i].pc = "search"
  /\ LET page == SearchPage(inv[i].variant, db, inv[i].query, inv[i].limit)
     IN  inv' = [inv EXCEPT ![i] =
           [@ EXCEPT !.pc = "done",
                     !.result = page.items,
                     !.meta = ReturnedMeta(inv[i], page)]]
  /\ UNCHANGED <<db, env, clients, text, kws, kwDone, sprint, doc>>

\* variant: a failed search is swallowed and an empty page is returned
SearchFail_Swallowed(i, e) ==
  /\ inv[i].pc = "search"
  /\ inv' = [inv EXCEPT ![i] =
         [@ EXCEPT !.pc = "done", !.failedAt = "search", !.thrown = e,
                   !.log = @ \o ClientLog(inv[i].variant, e)]]
  /\ UNCHANGED <<db, env, clients, text, kws, kwDone, sprint, doc>>

\* the search fails: handled once in getTopicallyRelatedPages, which calls
\* axios itself, and twice in getRelatedIssues, which calls searchIssues
SearchFail(i, e) ==
  /\ inv[i].pc = "search"
  /\ inv' = [inv EXCEPT ![i] =
         [@ EXCEPT !.pc = "failed", !.failedAt = "search", !.thrown = e,
                   !.error = Surface(inv[i].entry, e),
                   !.log = @ \o ClientLog(inv[i].variant, e)
                             \o (IF inv[i].variant = "issue"
                                 THEN ClientLog(inv[i].variant, e)
                                 ELSE <<>>)]]
  /\ UNCHANGED <<db, env, clients, text, kws, kwDone, sprint, doc>>

LimitArgs == {<<FALSE, 0>>} \cup {<<TRUE, n>> : n \in 0..MaxLimit}
ArgsOf(variant) == IF variant = "page" THEN LimitArgs ELSE {<<FALSE, 0>>}

Init ==
  /\ db \in DbSpace
  /\ env \in {FullEnv} \cup MissingOne
  /\ clients = [confluence |-> 0, jira |-> 0]
  /\ inv = [i \in Invocations |-> IdleInv]
  /\ text = <<>>
  /\ kws = <<>>
  /\ kwDone = FALSE
  /\ sprint = IdleSprint
  /\ doc = IdleDoc

Next ==
  \/ \E i \in Solo, variant \in {"page", "issue"},
        id \in Ids \cup {MissingId} :
       \E a \in ArgsOf(variant) : ToolStart(i, variant, id, a[1], a[2])
  \/ \E i \in Solo, variant \in {"page", "issue"},
        id \in Ids \cup {MissingId} :
       \E a \in ArgsOf(variant) : ClientStart(i, variant, id, a[1], a[2])
  \/ \E i \in Solo : FetchOk(i)
  \/ \E i \in Solo, e \in Failures : FetchFail(i, e)
  \/ \E i \in Solo : SearchOk(i)
  \/ \E i \in Solo, e \in Failures : SearchFail(i, e)

Spec == Init /\ [][Next]_vars

(***************************************************************************)
(* Two invocations that overlap: each may be started while the other waits *)
(* for its fetch or its search.                                            *)
(***************************************************************************)
ConcDbs ==
  {d \in DbSpace :
     /\ d["1"].type = "page" /\ d["1"].title = T2
     /\ d["2"] = [type |-> "page", title |-> T1, labels |-> <<LX>>, project |-> "P"]
     /\ d["3"] = [type |-> "blogpost", title |-> T0, labels |-> <<LX>>,
                  project |-> "Q"]}

ConcIds == {"1", "2", MissingId}
ConcArgs(variant) ==
  IF variant = "page" THEN {<<FALSE, 0>>, <<TRUE, 1>>} ELSE {<<FALSE, 0>>}
ConcFailures == {HttpError(404), TransportError}

InitConc ==
  /\ db \in ConcDbs
  /\ env \in {FullEnv} \cup MissingOne
  /\ clients = [confluence |-> 0, jira |-> 0]
  /\ inv = [i \in Invocations |-> IdleInv]
  /\ text = <<>>
  /\ kws = <<>>
  /\ kwDone = FALSE
  /\ sprint = IdleSprint
  /\ doc = IdleDoc

NextConc ==
  \/ \E i \in Invocations, variant \in {"page", "issue"}, id \in ConcIds :
       \E a \in ConcArgs(variant) : ToolStart(i, variant, id, a[1], a[2])
  \/ \E i \in Invocations, variant \in {"page", "issue"}, id \in ConcIds :
       \E a \in ConcArgs(variant) : ClientStart(i, variant, id, a[1], a[2])
  \/ \E i \in Invocations : FetchOk(i)
  \/ \E i \in Invocations, e \in ConcFailures : FetchFail(i, e)
  \/ \E i \in Invocations : SearchOk(i)
  \/ \E i \in Invocations, e \in ConcFailures : SearchFail(i, e)

SpecConc == InitConc /\ [][NextConc]_vars

(***************************************************************************)
(* getSprintIssues over every argument and every response up to MaxIssues. *)
(***************************************************************************)
(***************************************************************************)
(* Overlapping invocations whose outbound requests are all answered.       *)
(***************************************************************************)
LiveIds == {"1", MissingId}
LiveFailures == {HttpError(500)}

\* the remote answers the request invocation i is waiting for
Respond(i) ==
  \/ FetchOk(i)
  \/ \E e \in LiveFailures : FetchFail(i, e)
  \/ SearchOk(i)
  \/ \E e \in LiveFailures : SearchFail(i, e)

InitLive ==
  /\ db = CHOOSE d \in ConcDbs : d["1"].labels # <<>>
  /\ env \in {FullEnv, [FullEnv EXCEPT !["ATLASSIAN_TOKEN"] = FALSE]}
  /\ clients = [confluence |-> 0, jira |-> 0]
  /\ inv = [i \in Invocations |-> IdleInv]
  /\ text = <<>>
  /\ kws = <<>>
  /\ kwDone = FALSE
  /\ sprint = IdleSprint
  /\ doc = IdleDoc

NextLive ==
  \/ \E i \in Invocations, variant \in {"page", "issue"}, id \in LiveIds :
       ToolStart(i, variant, id, FALSE, 0)
  \/ \E i \in Invocations, variant \in {"page", "issue"}, id \in LiveIds :
       ClientStart(i, variant, id, FALSE, 0)
  \/ \E i \in Invocations : Respond(i)

SpecLive ==
  InitLive /\ [][NextLive]_vars /\ \A i \in Invocations : WF_vars(Respond(i))

(***************************************************************************)
(* The getActiveSprintIssues tool: sprint lookup, then the sprint's issues.*)
(***************************************************************************)
NoActiveSprintMessage == "No active sprint found for this board."
DefaultIssueTypes == <<"Story", "Bug">>
ActiveSprintId == 7

\* `values` of the sprint lookup answer: absent, empty, or one sprint
SprintValues == {<<>>, << <<>> >>, << <<ActiveSprintId>> >>}

\* sprintsResp.values && sprintsResp.values.length > 0
HasActiveSprint(values) == values # <<>> /\ Len(values[1]) > 0

\* args.issueTypes && args.issueTypes.length > 0 ? args.issueTypes : default
EffectiveTypes(arg) ==
  IF arg # <<>> /\ Len(arg[1]) > 0 THEN arg[1] ELSE DefaultIssueTypes

ActiveStart ==
  /\ sprint.pc = "idle"
  /\ IF clients.jira = 0 /\ ~EnvOk
     THEN /\ sprint' = [sprint EXCEPT !.pc = "failed",
                          !.thrown = UserError(EnvMessage),
                          !.error = handleError(UserError(EnvMessage))]
          /\ UNCHANGED clients
     ELSE /\ clients' = IF clients.jira = 0
                        THEN [clients EXCEPT !.jira = @ + 1] ELSE clients
          /\ sprint' = [sprint EXCEPT !.pc = "lookup",
                          !.reqs = <<"board-sprints">>]
  /\ UNCHANGED <<db, env, inv, text, kws, kwDone, doc>>

\* variant: the sprint's issues are requested before the answer is looked at
LookupOk_RequestsAnyway(values) ==
  /\ sprint.pc = "lookup"
  /\ IF HasActiveSprint(values)
     THEN sprint' = [sprint EXCEPT !.pc = "issues", !.values = values,
                       !.effective = EffectiveTypes(sprint.issueTypes),
                       !.reqs = Append(@, "sprint-issues")]
     ELSE sprint' = [sprint EXCEPT !.pc = "done", !.values = values,
                       !.reqs = Append(@, "sprint-issues"),
                       !.message = NoActiveSprintMessage]
  /\ UNCHANGED <<db, env, clients, inv, text, kws, kwDone, doc>>

\* the sprint lookup answers
LookupOk(values) ==
  /\ sprint.pc = "lookup"
  /\ IF HasActiveSprint(values)
     THEN sprint' = [sprint EXCEPT !.pc = "issues", !.values = values,
                       !.effective = EffectiveTypes(sprint.issueTypes),
                       !.reqs = Append(@, "sprint-issues")]
     ELSE sprint' = [sprint EXCEPT !.pc = "done", !.values = values,
                       !.message = NoActiveSprintMessage]
  /\ UNCHANGED <<db, env, clients, inv, text, kws, kwDone, doc>>

\* a request of the tool fails: getSprints or getSprintIssues handles it
\* once, the tool's handleError classifies it
ActiveFail(e) ==
  /\ sprint.pc \in {"lookup", "issues"}
  /\ sprint' = [sprint EXCEPT !.pc = "failed", !.thrown = e,
                               !.error = handleError(e),
                               !.log = @ \o JiraLog(e)]
  /\ UNCHANGED <<db, env, clients, inv, text, kws, kwDone, doc>>

\* getSprintIssues answers: the tool always passes a non-empty type list
ActiveIssuesOk ==
  /\ sprint.pc = "issues"
  /\ sprint' = [sprint EXCEPT !.pc = "done",
                  !.returned = [sprint.response EXCEPT !.issues =
                     FilterByTypes(sprint.response.issues, sprint.effective)]]
  /\ UNCHANGED <<db, env, clients, inv, text, kws, kwDone, doc>>

InitActive ==
  /\ db = [id \in Ids |-> CHOOSE sh \in OtherShapes : sh.labels = <<>>]
  /\ env \in EnvSpace
  /\ clients = [confluence |-> 0, jira |-> 0]
  /\ inv = [i \in Invocations |-> IdleInv]
  /\ text = <<>>
  /\ kws = <<>>
  /\ kwDone = FALSE
  /\ \E a \in TypeArgs, r \in SprintResponses :
       sprint = [IdleSprint EXCEPT !.issueTypes = a, !.response = r]
  /\ doc = IdleDoc

NextActive ==
  \/ ActiveStart
  \/ \E values \in SprintValues : LookupOk(values)
  \/ \E e \in Failures : ActiveFail(e)
  \/ ActiveIssuesOk

SpecActive == InitActive /\ [][NextActive]_vars

InitSprint ==
  /\ db = [id \in Ids |-> CHOOSE sh \in OtherShapes : sh.labels = <<>>]
  /\ env = FullEnv
  /\ clients = [confluence |-> 0, jira |-> 0]
  /\ inv = [i \in Invocations |-> IdleInv]
  /\ text = <<>>
  /\ kws = <<>>
  /\ kwDone = FALSE
  /\ \E a \in TypeArgs, r \in SprintResponses :
       sprint = [IdleSprint EXCEPT !.pc = "wait", !.issueTypes = a,
                                   !.response = r]
  /\ doc = IdleDoc

NextSprint ==
  \/ SprintOk
  \/ \E e \in Failures : SprintFail(e)

SpecSprint == InitSprint /\ [][NextSprint]_vars

(***************************************************************************)
(* extractIssueDetails over every issue of IssueInputs.                    *)
(***************************************************************************)
InitDoc ==
  /\ db = [id \in Ids |-> CHOOSE sh \in OtherShapes : sh.labels = <<>>]
  /\ env = FullEnv
  /\ clients = [confluence |-> 0, jira |-> 0]
  /\ inv = [i \in Invocations |-> IdleInv]
  /\ text = <<>>
  /\ kws = <<>>
  /\ kwDone = FALSE
  /\ sprint = IdleSprint
  /\ \E issue \in IssueInputs : doc = [IdleDoc EXCEPT !.issue = issue]

NextDoc ==
  \/ ExtractDetails
  \/ GetJiraIssueTool

SpecDoc == InitDoc /\ [][NextDoc]_vars

(***************************************************************************)
(* The keyword extractor on its own, over every text up to MaxTitleLen.    *)
(***************************************************************************)
ExtractKeywords ==
  /\ ~kwDone
  /\ kws' = extractKeywords(text)
  /\ kwDone' = TRUE
  /\ UNCHANGED <<db, env, clients, inv, text, sprint, doc>>

InitKw ==
  /\ db = [id \in Ids |-> CHOOSE sh \in OtherShapes : sh.labels = <<>>]
  /\ env = FullEnv
  /\ clients = [confluence |-> 0, jira |-> 0]
  /\ inv = [i \in Invocations |-> IdleInv]
  /\ text \in Strings \cup SampleTexts
  /\ kws = <<>>
  /\ kwDone = FALSE
  /\ sprint = IdleSprint
  /\ doc = IdleDoc

NextKw == ExtractKeywords

SpecKw == InitKw /\ [][NextKw]_vars

(***************************************************************************)
(* Properties                                                              *)
(***************************************************************************)
QueryBuilt(i) == inv[i].pc \in {"search", "done"} \/ inv[i].failedAt = "search"

\* position of the opening parenthesis of a trailing group of n OR-ed terms
GroupStart(q, n) == Len(q) - 2 * n

\* the expression q ends with ( labelText = l1 OR ... OR labelText = ln )
EndsWithLabelGroup(q, labels) ==
  LET g == GroupStart(q, Len(labels))
  IN  /\ g >= 2
      /\ q[g] = LP
      /\ q[Len(q)] = RP
      /\ \A j \in 1..Len(labels) :
           q[g + 2 * j - 1] = Atom("labelText", "=", labels[j])
      /\ \A j \in 1..(Len(labels) - 1) : q[g + 2 * j] = OR

\* C1: document variant, source page with at least one label: with keywords
\* the label disjunction is joined by a top-level OR; without keywords it is
\* joined by AND directly onto `type = page AND id != <identifier>`.
C1_LabelJoin ==
  \A i \in Invocations :
    (QueryBuilt(i) /\ inv[i].variant = "page" /\ Len(inv[i].labels) > 0) =>
      LET q == inv[i].query
          c == GroupStart(q, Len(inv[i].labels)) - 1
      IN  /\ EndsWithLabelGroup(q, inv[i].labels)
          /\ IF Len(inv[i].keywords) > 0
             THEN q[c] = OR /\ DepthAt(q, c) = 0
             ELSE /\ q[c] = AND
                  /\ SubSeq(q, 1, c - 1) =
                       <<Atom("type", "=", <<"page">>), AND,
                         Atom("id", "!=", <<inv[i].id>>)>>

C1_Witness ==
  \E i \in Invocations :
    /\ inv[i].pc = "done" /\ inv[i].variant = "page"
    /\ Len(inv[i].labels) > 0 /\ Len(inv[i].keywords) > 0

\* C2: the expression synthesized for X contains a clause excluding X:
\* `id != X` (document variant), `issuekey != X` (issue variant).
C2_ExcludesSource ==
  \A i \in Invocations :
    QueryBuilt(i) =>
      \E n \in 1..Len(inv[i].query) :
        inv[i].query[n] =
          Atom(IF inv[i].variant = "page" THEN "id" ELSE "issuekey", "!=",
               <<inv[i].id>>)

C2_Witness ==
  \E i \in Invocations :
    /\ inv[i].pc = "search" /\ inv[i].variant = "issue"
    /\ Len(inv[i].labels) > 0 /\ Len(inv[i].keywords) > 0

\* C3: the result of findRelated(X) contains no item whose identifier is X
\* (the search endpoint returning exactly the items that satisfy the
\* expression, AND binding tighter than OR).
C3_SourceNotInResult ==
  \A i \in Invocations :
    inv[i].pc = "done" => inv[i].id \notin Range(inv[i].result)

\* C4: every keyword produced by the extractor has length greater than 3
\* after punctuation stripping.
C4_KeywordsLongerThan3 ==
  kwDone => \A n \in 1..Len(kws) : Len(kws[n]) > 3

\* C5: document variant, no keywords and no labels: the expression is
\* exactly `type = page AND id != <identifier>`.
C5_BareBaseClause ==
  \A i \in Invocations :
    (QueryBuilt(i) /\ inv[i].variant = "page"
       /\ Len(inv[i].title) = 0 /\ Len(inv[i].labels) = 0) =>
      inv[i].query =
        <<Atom("type", "=", <<"page">>), AND, Atom("id", "!=", <<inv[i].id>>)>>

C5_Witness ==
  \E i \in Invocations :
    /\ inv[i].pc = "done" /\ inv[i].variant = "page"
    /\ Len(inv[i].title) = 0 /\ Len(inv[i].labels) = 0

\* C6: for a caller-supplied limit N the search is asked for at most N
\* results and at most N items are returned.
C6_LimitRespected ==
  \A i \in Invocations :
    inv[i].hasLimit =>
      /\ \A n \in 1..Len(inv[i].reqs) :
           inv[i].reqs[n].ep = "search" => inv[i].reqs[n].limit <= inv[i].argLimit
      /\ Len(inv[i].result) <= inv[i].argLimit

IsNotFound(entry, error) ==
  IF entry = "tool"
  THEN error.name = "UserError" /\ error.message[1] = "Not Found Error:"
  ELSE error.hasResponse /\ error.status = 404

\* C7: an item fetch answered with HTTP 404 raises a not-found error to the
\* caller, and no request is sent to the search endpoint.
C7_NotFoundShortCircuit ==
  \A i \in Invocations :
    (inv[i].failedAt = "fetch" /\ inv[i].thrown.hasResponse
       /\ inv[i].thrown.status = 404) =>
      /\ inv[i].pc = "failed"
      /\ IsNotFound(inv[i].entry, inv[i].error)
      /\ \A n \in 1..Len(inv[i].reqs) : inv[i].reqs[n].ep # "search"

C7_Witness ==
  \E i \in Invocations :
    /\ inv[i].failedAt = "fetch" /\ inv[i].thrown = HttpError(404)
    /\ inv[i].entry = "tool" /\ inv[i].id = MissingId

\* C8: a successful invocation has sent exactly two requests, the item
\* fetch and then the search carrying the query derived from the fetched
\* item; while the fetch is outstanding no search has been sent.
C8_FetchThenSearch ==
  \A i \in Invocations :
    /\ inv[i].pc = "fetch" =>
         \A n \in 1..Len(inv[i].reqs) : inv[i].reqs[n].ep # "search"
    /\ inv[i].pc = "done" =>
         /\ Len(inv[i].reqs) = 2
         /\ inv[i].reqs[1].ep = "fetch" /\ inv[i].reqs[1].id = inv[i].id
         /\ inv[i].reqs[2].ep = "search"
         /\ inv[i].reqs[2].q = QueryOf(inv[i].variant, inv[i].id, db[inv[i].id])

C8_Witness ==
  \E i \in Invocations :
    inv[i].pc = "done" /\ Len(inv[i].reqs) = 2 /\ Len(inv[i].result) > 0

CountReqs(i, ep) ==
  Cardinality({n \in 1..Len(inv[i].reqs) : inv[i].reqs[n].ep = ep})

\* C9: a failed fetch or search ends the operation with an error raised to
\* the caller and no result; each endpoint is requested at most once.
C9_FailureAborts ==
  \A i \in Invocations :
    /\ CountReqs(i, "fetch") <= 1
    /\ CountReqs(i, "search") <= 1
    /\ inv[i].thrown # NoError =>
         /\ inv[i].pc = "failed"
         /\ inv[i].result = <<>>
         /\ inv[i].error.name \in {"AxiosError", "UserError"}
         /\ inv[i].failedAt = "fetch" => CountReqs(i, "search") = 0

C9_Witness ==
  \E i \in Invocations :
    inv[i].failedAt = "search" /\ inv[i].pc = "failed" /\ Len(inv[i].reqs) = 2

\* C10: the tool layer turns a failure that carries an HTTP response into
\* one error chosen by status: 401 authentication, 403 permission, 404
\* not found, any other status a message with the status and status text;
\* alike for the Confluence-backed and the Jira-backed tool.
C10_ToolClassifier ==
  \A i \in Invocations :
    (inv[i].entry = "tool" /\ inv[i].pc = "failed" /\ inv[i].thrown.hasResponse) =>
      LET st == inv[i].thrown.status
          m == inv[i].error.message
      IN  /\ inv[i].error.name = "UserError"
          /\ m[1] = "Authentication Error:" <=> st = 401
          /\ m[1] = "Permission Error:" <=> st = 403
          /\ m[1] = "Not Found Error:" <=> st = 404
          /\ st \notin {401, 403, 404} =>
               /\ ToString(st) \in Range(m)
               /\ inv[i].thrown.statusText \in Range(m)

C10_Witness ==
  \E i \in Invocations :
    /\ inv[i].entry = "tool" /\ inv[i].variant = "issue"
    /\ inv[i].pc = "failed" /\ inv[i].thrown = HttpError(403)


\* s ends with the sequence t
EndsWith(s, t) ==
  Len(s) >= Len(t) /\ SubSeq(s, Len(s) - Len(t) + 1, Len(s)) = t

\* C11: a failure without an HTTP response reaches the tool caller as a
\* generic failure whose message carries the underlying error's message; an
\* error that already is a UserError is raised again unchanged.
C11_TransportAndPassThrough ==
  \A i \in Invocations :
    (inv[i].entry = "tool" /\ inv[i].pc = "failed" /\ ~inv[i].thrown.hasResponse) =>
      IF inv[i].thrown.name = "UserError"
      THEN inv[i].error = inv[i].thrown
      ELSE /\ inv[i].error.name = "UserError"
           /\ inv[i].error.message[1] = "An unexpected error occurred:"
           /\ Len(inv[i].thrown.message) > 0
           /\ EndsWith(inv[i].error.message, inv[i].thrown.message)

C11_Witness ==
  \E i \in Invocations :
    /\ inv[i].entry = "tool" /\ inv[i].pc = "failed"
    /\ inv[i].thrown = TransportError /\ inv[i].failedAt = "search"


\* q holds at positions g .. g + 2n: ( f op v1 OR ... OR f op vn )
GroupAt(q, g, f, op, vals) ==
  /\ g + 2 * Len(vals) <= Len(q)
  /\ q[g] = LP
  /\ q[g + 2 * Len(vals)] = RP
  /\ \A j \in 1..Len(vals) : q[g + 2 * j - 1] = Atom(f, op, vals[j])
  /\ \A j \in 1..(Len(vals) - 1) : q[g + 2 * j] = OR

\* number of lexemes of ` OR ( t1 OR ... OR tn )`, none when n = 0
OrGroupLen(n) == IF n > 0 THEN 2 * n + 2 ELSE 0

\* C12: the issue query is `(D) AND issuekey != <key> ORDER BY updated DESC`
\* with D the OR-join, in this order, of `project = <projectKey>`, the
\* parenthesised summary disjunction (iff there are keywords) and the
\* parenthesised label disjunction (iff there are labels).
C12_IssueQueryShape ==
  \A i \in Invocations :
    (QueryBuilt(i) /\ inv[i].variant = "issue") =>
      LET q == inv[i].query
          kw == inv[i].keywords
          lb == inv[i].labels
          b == 2 + OrGroupLen(Len(kw))
          e == b + OrGroupLen(Len(lb))
      IN  /\ Len(q) = e + 4
          /\ q[1] = LP
          /\ q[2] = Atom("project", "=", <<db[inv[i].id].project>>)
          /\ Len(kw) > 0 => q[3] = OR /\ GroupAt(q, 4, "summary", "~", kw)
          /\ Len(lb) > 0 => q[b + 1] = OR /\ GroupAt(q, b + 2, "labels", "=", lb)
          /\ q[e + 1] = RP
          /\ q[e + 2] = AND
          /\ q[e + 3] = Atom("issuekey", "!=", <<inv[i].id>>)
          /\ q[e + 4] = ORDERBY

C12_Witness ==
  \E i \in Invocations :
    /\ inv[i].pc = "done" /\ inv[i].variant = "issue"
    /\ Len(inv[i].keywords) = 2 /\ Len(inv[i].labels) = 2


\* positions where a whitespace-delimited token of s begins
TokenStarts(s) ==
  {p \in 1..Len(s) : ~IsSpace(s[p]) /\ (p = 1 \/ IsSpace(s[p - 1]))}

\* last position of the token of s that begins at p
TokenEnd(s, p) ==
  CHOOSE q \in p..Len(s) :
    /\ \A r \in p..q : ~IsSpace(s[r])
    /\ q = Len(s) \/ IsSpace(s[q + 1])

\* the reference: tokens of raw length above 3, in order of occurrence, each
\* with its non-word characters removed
ReferenceKeywords(s) ==
  LET kept == {p \in TokenStarts(s) : TokenEnd(s, p) - p + 1 > 3}
      Nth(n) == CHOOSE p \in kept : Cardinality({r \in kept : r < p}) = n - 1
  IN  [n \in 1..Cardinality(kept) |->
         SelectSeq(SubSeq(s, Nth(n), TokenEnd(s, Nth(n))), IsWord)]

\* C13: the extractor's output is the reference sequence (duplicates kept,
\* case unchanged); an empty or whitespace-only text gives no keyword.
C13_MatchesReference ==
  kwDone =>
    /\ kws = ReferenceKeywords(text)
    /\ (\A p \in 1..Len(text) : IsSpace(text[p])) => kws = <<>>

C13_Witness ==
  /\ kwDone
  /\ Len(kws) = 2 /\ kws[1] = kws[2]
  /\ kws[1] = <<"A", "a", "a">>


\* C14: every item the document variant returns is a page (the search
\* endpoint returning exactly the items that satisfy the expression, AND
\* binding tighter than OR).
C14_ResultsArePages ==
  \A i \in Invocations :
    (inv[i].pc = "done" /\ inv[i].variant = "page") =>
      \A n \in 1..Len(inv[i].result) : db[inv[i].result[n]].type = "page"


\* the limit an invocation asks for when it runs alone
LimitAlone(r) ==
  IF r.variant = "issue" THEN JiraMaxResults
  ELSE IF r.entry = "tool" THEN ToolLimit(r.hasLimit, r.argLimit)
  ELSE ParamLimit(r.hasLimit, r.argLimit)

\* the expression an invocation synthesizes when it runs alone
QueryAlone(r) == QueryOf(r.variant, r.id, db[r.id])

IsolatedState ==
  \A i \in Invocations :
    /\ QueryBuilt(i) =>
         /\ inv[i].query = QueryAlone(inv[i])
         /\ inv[i].reqs[Len(inv[i].reqs)].q = QueryAlone(inv[i])
    /\ inv[i].pc = "done" =>
         inv[i].result = Search(db, QueryAlone(inv[i]), LimitAlone(inv[i]))

IsolatedStep ==
  \A i \in Invocations :
    inv'[i] # inv[i] => \A j \in Invocations \ {i} : inv'[j] = inv[j]

\* C15: under any interleaving of overlapping invocations each invocation's
\* expression and result are those it produces alone, and a step of one
\* invocation leaves the other's expression and result untouched.
C15_Isolation == [](IsolatedState) /\ [][IsolatedStep]_vars

C15_Witness ==
  /\ inv[1].pc = "search" /\ inv[2].pc = "done"
  /\ inv[1].query # inv[2].query
  /\ inv[1].variant = inv[2].variant
  /\ Len(inv[2].reqs) = 2


\* C16 as stated: a successful call of the client method returns the
\* search endpoint's page unmodified, the items in the remote's order
\* together with the page's pagination metadata.
C16_PageUnmodified ==
  \A i \in Invocations :
    (inv[i].pc = "done" /\ inv[i].entry = "client") =>
      LET page == SearchPage(inv[i].variant, db, inv[i].reqs[2].q,
                             inv[i].reqs[2].limit)
      IN  inv[i].result = page.items /\ inv[i].meta = page.meta

\* C16 amended: the items come back unmodified and in the remote's order in
\* both variants; the pagination metadata comes back in the document
\* variant only, the issue variant returns the bare issue list.
C16_ItemsUnmodified ==
  \A i \in Invocations :
    (inv[i].pc = "done" /\ inv[i].entry = "client") =>
      LET page == SearchPage(inv[i].variant, db, inv[i].reqs[2].q,
                             inv[i].reqs[2].limit)
      IN  /\ inv[i].result = page.items
          /\ inv[i].variant = "page" => inv[i].meta = page.meta
          /\ inv[i].variant = "issue" => inv[i].meta = {}

C16_Witness ==
  \E i \in Invocations :
    /\ inv[i].pc = "done" /\ inv[i].entry = "client"
    /\ inv[i].variant = "page" /\ Len(inv[i].result) >= 2
    /\ <<"size", "2">> \in inv[i].meta


\* C17: with a non-empty issueTypes the returned list is the order-preserving
\* sub-sequence of the response's issues whose type name is in issueTypes.
C17_FilteredByType ==
  (sprint.pc = "done" /\ sprint.issueTypes # <<>>
     /\ Len(sprint.issueTypes[1]) > 0) =>
    LET out == sprint.returned.issues
        src == sprint.response.issues
        wanted == Range(sprint.issueTypes[1])
    IN  /\ \A n \in 1..Len(out) : out[n].type \in wanted
        /\ \A n \in 1..Len(out) : out[n] = src[out[n].key]
        /\ \A n \in 1..(Len(out) - 1) : out[n].key < out[n + 1].key
        /\ \A p \in 1..Len(src) :
             src[p].type \in wanted => \E n \in 1..Len(out) : out[n] = src[p]

C17_Witness ==
  /\ sprint.pc = "done"
  /\ sprint.issueTypes = << <<"Bug", "Story">> >>
  /\ Len(sprint.response.issues) = 3
  /\ Len(sprint.returned.issues) = 2
  /\ sprint.returned.issues[1].type = "Story"
  /\ sprint.returned.issues[2].type = "Bug"


\* the texts of the text nodes below a node
RECURSIVE TextsBelow(_)
TextsBelow(node) ==
  UNION {IF node.content[n].type = "text" THEN {node.content[n].text}
         ELSE TextsBelow(node.content[n]) : n \in 1..Len(node.content)}

\* the texts of the text nodes of the paragraphs of a description
ParagraphTexts(adf) ==
  UNION {IF adf[n].type = "paragraph" THEN TextsBelow(adf[n]) ELSE {}
           : n \in 1..Len(adf)}

\* the four lines are in `out` in this order, and every non-empty paragraph
\* text of the description is on a line after them
HasDetailLines(out, issue, summary, status, type) ==
  \E a, b, c, d \in 1..Len(out) :
    /\ a < b /\ b < c /\ c < d
    /\ out[a] = <<"Issue Key:", issue.key>>
    /\ out[b] = <<"Summary:", summary>>
    /\ out[c] = <<"Status:", status>>
    /\ out[d] = <<"Type:", type>>
    /\ issue.description # <<>> =>
         \A t \in ParagraphTexts(issue.description[1]) \ {""} :
           \E n \in (d + 1)..Len(out) : t \in Range(out[n])

\* `${value}` of an optional value
Interpolated(opt) == IF opt = <<>> THEN "undefined" ELSE opt[1]

\* C18 as stated: the lines carry the issue's own summary, status name and
\* issue type name.
C18_DetailLines ==
  doc.pc = "done" =>
    IF ~doc.issue.present \/ ~doc.issue.hasFields
    THEN doc.out = << <<"No issue data available">> >>
    ELSE HasDetailLines(doc.out, doc.issue, Interpolated(doc.issue.summary),
                        Interpolated(doc.issue.status),
                        Interpolated(doc.issue.issuetype))

\* what a line shows for a value that may be missing or empty
Shown(opt, fallback) ==
  IF opt = <<>> \/ opt = <<"">> THEN fallback ELSE opt[1]

\* C18 amended: a missing or empty summary is shown as `No summary`, a
\* missing or empty status or issue type name as `Unknown`.
C18_DetailLinesWithFallbacks ==
  doc.pc = "done" =>
    IF ~doc.issue.present \/ ~doc.issue.hasFields
    THEN doc.out = << <<"No issue data available">> >>
    ELSE HasDetailLines(doc.out, doc.issue, Shown(doc.issue.summary, "No summary"),
                        Shown(doc.issue.status, "Unknown"),
                        Shown(doc.issue.issuetype, "Unknown"))

C18_Witness ==
  /\ doc.pc = "done" /\ doc.issue.hasFields
  /\ doc.issue.summary = <<"Test Issue">> /\ doc.issue.status = <<"Open">>
  /\ doc.issue.description # <<>>
  /\ Len(doc.issue.description[1]) = 2
  /\ ParagraphTexts(doc.issue.description[1]) = {"alpha", "beta", "gamma"}


\* positions of the title terms of an expression
TitlePositions(q) == {n \in 1..Len(q) : q[n].k = "atom" /\ q[n].f = "title"}

\* C19: document variant: with keywords the base clause is followed by AND
\* and one parenthesised group of `title ~ <keyword>` terms, one per keyword,
\* in keyword order, joined by OR; without keywords there is no title term.
C19_TitleDisjunction ==
  \A i \in Invocations :
    (QueryBuilt(i) /\ inv[i].variant = "page") =>
      LET q == inv[i].query
          kw == inv[i].keywords
      IN  /\ Cardinality(TitlePositions(q)) = Len(kw)
          /\ Len(kw) > 0 =>
               /\ Len(q) >= 4
               /\ SubSeq(q, 1, 3) = BaseClause(inv[i].id)
               /\ q[4] = AND
               /\ GroupAt(q, 5, "title", "~", kw)

C19_Witness ==
  \E i \in Invocations :
    /\ inv[i].pc = "done" /\ inv[i].variant = "page"
    /\ Len(inv[i].keywords) = 2 /\ inv[i].keywords[1] # inv[i].keywords[2]
    /\ Len(inv[i].labels) > 0

C19_NoKeywords_Witness ==
  \E i \in Invocations :
    /\ inv[i].pc = "done" /\ inv[i].variant = "page"
    /\ Len(inv[i].keywords) = 0 /\ Len(inv[i].labels) > 0


\* first lines written by one run of the client's handleError
HandleHeaders == {"Error: status - statusText", "An unexpected error occurred"}

\* number of times the client's handleError ran for invocation i
HandleCalls(i) ==
  Cardinality({n \in 1..Len(inv[i].log) : inv[i].log[n] \in HandleHeaders})

\* C20: a failed outbound call of an invocation is handled (logged and
\* rethrown) by the client library exactly once.
C20_HandledOnce ==
  \A i \in Invocations :
    (inv[i].pc = "failed" /\ inv[i].failedAt \in {"fetch", "search"}) =>
      HandleCalls(i) = 1

\* the composite operation's own outbound call is the one case handled once
C20_OnlyOwnCallHandledOnce ==
  \A i \in Invocations :
    (inv[i].pc = "failed" /\ inv[i].failedAt \in {"fetch", "search"}) =>
      HandleCalls(i) =
        IF inv[i].variant = "page" /\ inv[i].failedAt = "search" THEN 1 ELSE 2


\* every credential value is present
CredentialsSet == \A n \in EnvNames : env[n]

Services == {"confluence", "jira"}

\* invocation i went through a tool and got past client initialisation
UsesToolClient(i) ==
  /\ inv[i].pc # "idle" /\ inv[i].entry = "tool" /\ inv[i].failedAt # "init"

\* with valid credentials each service has at most one client, and a tool
\* invocation that is under way has the client of its service
OneClientState ==
  CredentialsSet =>
    /\ \A s \in Services : clients[s] <= 1
    /\ \A i \in Invocations :
         UsesToolClient(i) => clients[ServiceOf(inv[i].variant)] = 1

\* a constructed client is never replaced or constructed again
OneClientStep == \A s \in Services : clients[s] = 1 => clients'[s] = 1

\* C21: with valid credentials at most one client per service is ever
\* constructed; the first tool invocation of a service constructs it and
\* later invocations, overlapping or not, reuse it.
C21_ClientMemoized == [](OneClientState) /\ [][OneClientStep]_vars

C21_Witness ==
  /\ CredentialsSet
  /\ \A i \in Invocations : UsesToolClient(i) /\ inv[i].pc \in {"fetch", "search"}
  /\ inv[1].variant = inv[2].variant
  /\ clients[ServiceOf(inv[1].variant)] = 1


Started(i) == inv[i].pc # "idle"
Finished(i) == inv[i].pc \in {"done", "failed"}

\* C22: when every outbound request is answered, a started invocation ends
\* with a result or an error; until then it waits for nothing but the answer
\* to its own fetch or search request.
C22_Terminates ==
  /\ [](\A i \in Invocations :
          (Started(i) /\ ~Finished(i)) =>
            /\ inv[i].pc \in {"fetch", "search"}
            /\ inv[i].reqs # <<>>
            /\ inv[i].reqs[Len(inv[i].reqs)].ep = inv[i].pc
            /\ ENABLED Respond(i))
  /\ \A i \in Invocations : Started(i) ~> Finished(i)

C22_Witness ==
  /\ inv[1].pc = "done" /\ Len(inv[1].reqs) = 2
  /\ inv[2].pc = "failed" /\ inv[2].failedAt = "search"


\* invocation i of the getRelatedPages tool has called getTopicallyRelatedPages
ToolCalledClient(i) ==
  /\ inv[i].entry = "tool" /\ inv[i].variant = "page"
  /\ inv[i].pc # "idle" /\ inv[i].failedAt # "init"

\* C23: the getRelatedPages tool hands the caller's limit unchanged to
\* getTopicallyRelatedPages, and 10 only when the limit is omitted.
C23_ToolPassesLimit ==
  \A i \in Invocations :
    ToolCalledClient(i) =>
      inv[i].limit = IF inv[i].hasLimit THEN inv[i].argLimit ELSE DefaultLimit

\* the limit is handed on unchanged except for 0, which becomes 10
C23_ZeroBecomesDefault ==
  \A i \in Invocations :
    ToolCalledClient(i) =>
      inv[i].limit = IF inv[i].hasLimit /\ inv[i].argLimit # 0
                     THEN inv[i].argLimit ELSE DefaultLimit


\* no filter was asked for: issueTypes is absent or an empty list
NoTypeFilter == sprint.issueTypes = <<>> \/ sprint.issueTypes = << <<>> >>

\* C24: with issueTypes absent or empty getSprintIssues returns the remote
\* issue list as it is, same items in the same order.
C24_UnfilteredIsIdentity ==
  (sprint.pc = "done" /\ NoTypeFilter) =>
    sprint.returned.issues = sprint.response.issues

C24_Witness ==
  /\ sprint.pc = "done"
  /\ sprint.issueTypes = << <<>> >>
  /\ Len(sprint.returned.issues) = MaxIssues
  /\ \E n \in 1..MaxIssues : sprint.returned.issues[n].type = "Bug"

\* C30: total, maxResults and startAt of the remote response are returned
\* unchanged, also when the issue list was filtered.
C30_MetadataPassedThrough ==
  sprint.pc = "done" =>
    /\ sprint.returned.total = sprint.response.total
    /\ sprint.returned.maxResults = sprint.response.maxResults
    /\ sprint.returned.startAt = sprint.response.startAt
    /\ DOMAIN sprint.returned = DOMAIN sprint.response

C30_Witness ==
  /\ sprint.pc = "done"
  /\ ~NoTypeFilter
  /\ Len(sprint.returned.issues) < Len(sprint.response.issues)
  /\ sprint.returned.total > Len(sprint.returned.issues)
  /\ sprint.returned.total = sprint.response.total


\* C25: for an issue fetched successfully the getJiraIssue tool returns a
\* string, the extracted details of that issue, never undefined or empty.
C25_ReturnsDetails ==
  doc.pc = "returned" =>
    /\ doc.tool.kind = "string"
    /\ doc.tool.text # <<>>
    /\ doc.tool.text = extractIssueDetails(doc.issue)

\* what the tool returns is the response's own extractedDetails property
C25_ReturnsResponseProperty ==
  doc.pc = "returned" =>
    doc.tool = IF doc.issue.extractedDetails = <<>> THEN Undefined
               ELSE StringValue(<<doc.issue.extractedDetails>>)


\* C26: when the sprint lookup finds no active sprint the tool returns the
\* message `No active sprint found for this board.`, raises nothing and has
\* sent no sprint-issues request.
C26_NoActiveSprint ==
  (sprint.pc = "done" /\ sprint.reqs # <<>> /\ ~HasActiveSprint(sprint.values)) =>
    /\ sprint.message = NoActiveSprintMessage
    /\ sprint.thrown = NoError /\ sprint.error = NoError
    /\ sprint.reqs = <<"board-sprints">>
    /\ sprint.returned = NoResponse

C26_Witness ==
  /\ sprint.pc = "done" /\ sprint.reqs # <<>>
  /\ sprint.values = << <<>> >>
  /\ sprint.message = NoActiveSprintMessage
  /\ Len(sprint.response.issues) > 0


\* C27: with a credential value missing, a started tool invocation has
\* failed with the error asking to set the values, has sent no request, and
\* no client is memoized, so the next invocation initialises again.
C27_MissingCredentials ==
  ~CredentialsSet =>
    /\ \A s \in Services : clients[s] = 0
    /\ \A i \in Invocations :
         (inv[i].entry = "tool" /\ inv[i].pc # "idle") =>
           /\ inv[i].pc = "failed" /\ inv[i].failedAt = "init"
           /\ inv[i].error = UserError(EnvMessage)
           /\ inv[i].reqs = <<>>

C27_Witness ==
  /\ ~env["ATLASSIAN_TOKEN"] /\ env["ATLASSIAN_DOMAIN"] /\ env["ATLASSIAN_USER"]
  /\ \A i \in Invocations :
       /\ inv[i].entry = "tool" /\ inv[i].failedAt = "init"
       /\ inv[i].variant = "issue"
       /\ inv[i].error = UserError(EnvMessage)


\* letters, digits and underscore, as far as the texts of the model go
WordCharacters == {"a", "b", "A", "_"}

\* C28: every extracted keyword consists of word characters only; it holds
\* no double quote, no whitespace and no other punctuation.
C28_KeywordsAreWords ==
  kwDone => \A n \in 1..Len(kws) : Range(kws[n]) \subseteq WordCharacters

C28_Witness ==
  /\ kwDone
  /\ "\"" \in Range(text)
  /\ kws = << <<"a", "b", "a", "b">> >>

\* C29: no extracted keyword is the empty string.
C29_NoEmptyKeyword ==
  kwDone => \A n \in 1..Len(kws) : kws[n] # <<>>

\* a keyword is empty exactly when its token, longer than 3, has no word
\* character
C29_EmptyOnlyFromPunctuation ==
  kwDone =>
    LET words == SelectSeq(Split(text), LongEnough)
    IN  /\ Len(kws) = Len(words)
        /\ \A n \in 1..Len(kws) :
             kws[n] = <<>> <=> Range(words[n]) \cap WordCharacters = {}

====
